---- MODULE Spec2Model ----
(***************************************************************************)
(* Model of the ACME DNS-01 challenge orchestration of lemur:              *)
(*   lemur/plugins/lemur_acme/acme_handlers.py  (AcmeHandler,              *)
(*                                               AcmeDnsHandler)           *)
(*   lemur/plugins/lemur_acme/ultradns.py       (the UltraDNS provider)    *)
(* Host names, zone names and tokens are strings; the string functions of  *)
(* the code (startswith, endswith, split, join, count, lower) are computed *)
(* character by character.                                                 *)
(***************************************************************************)
EXTENDS Integers, Sequences, FiniteSets, TLC

VARIABLES
    \* ultradns.py: the zones of the UltraDNS account and one get_zone_name call
    zones, zdomain, zresult,
    \* AcmeDnsHandler: self.all_dns_providers, self.dns_providers_for_domain
    all_dns_providers, dns_providers_for_domain,
    \* the ACME order: order.authorizations, and one get_dns_challenges call
    order_authorizations, chost, cresult,
    \* UltraDNS: the TXT record sets of the account, keyed by <<zone, node>>,
    \* and the last create_txt_record / delete_txt_record call
    rrsets, rr_call,
    \* concurrent issuance attempts that write the same record set: for each,
    \* where it is in create_txt_record / delete_txt_record and the rdata it
    \* has read
    callers,
    \* ultradns.py: one wait_for_dns_change call (where it is, the loop
    \* counter, status, the queries sent to each resolver, the sleeps, the
    \* metric sent at the end) and the answers the resolvers give
    wpc, attempts, status, queries, sleeps, wmetric, resolvers,
    \* one issuance attempt: current_app.config ACME_ENABLE_DELEGATED_CNAME,
    \* order_info.domains, where the caller is, the AuthorizationRecords it
    \* holds, the exception that reached it, and the calls made so far to the
    \* DNS providers and to the ACME client
    acme_enable_delegated_cname, order_info_domains, pc, held_authorizations,
    exception, trace

zoneVars == <<zones, zdomain, zresult>>
handlerVars == <<all_dns_providers, dns_providers_for_domain>>
orderVars == <<order_authorizations, chost, cresult>>
rrVars == <<rrsets, rr_call, callers>>
pollVars == <<wpc, attempts, status, queries, sleeps, wmetric, resolvers>>
issuanceVars ==
    <<acme_enable_delegated_cname, order_info_domains, pc, held_authorizations,
      exception, trace>>
vars == <<zoneVars, handlerVars, orderVars, rrVars, pollVars, issuanceVars>>

(***************************************************************************)
(* Bounds of the model.                                                    *)
(***************************************************************************)
MaxZones == 3
MaxProviders == 2
MaxProviderDomains == 2
MaxAuthz == 2
MaxTokens == 2
MaxCallers == 3

(***************************************************************************)
(* Constants of the program.                                               *)
(***************************************************************************)
number_of_attempts == 20

(***************************************************************************)
(* Python string and list functions.                                       *)
(***************************************************************************)
Range(s) == {s[i] : i \in DOMAIN s}

NoDuplicates(s) == \A i, j \in DOMAIN s : i # j => s[i] # s[j]

\* the sequences of at most n distinct elements of S
DistinctSeqs(S, n) ==
    {s \in UNION {[1..k -> S] : k \in 0..n} : NoDuplicates(s)}

CharAt(s, i) == SubSeq(s, i, i)

\* str.startswith
StartsWith(s, prefix) ==
    Len(prefix) <= Len(s) /\ SubSeq(s, 1, Len(prefix)) = prefix

\* str.endswith
EndsWith(s, suffix) ==
    Len(suffix) <= Len(s) /\ SubSeq(s, Len(s) - Len(suffix) + 1, Len(s)) = suffix

\* str.count(".")
CountDots(s) == Cardinality({i \in 1..Len(s) : CharAt(s, i) = "."})

\* the position of the first "." of s at or after i, 0 when there is none
RECURSIVE FirstDotFrom(_, _)
FirstDotFrom(s, i) ==
    IF i > Len(s) THEN 0
    ELSE IF CharAt(s, i) = "." THEN i
    ELSE FirstDotFrom(s, i + 1)

\* str.split(".")
RECURSIVE SplitDots(_)
SplitDots(s) ==
    LET dot == FirstDotFrom(s, 1)
    IN  IF dot = 0 THEN <<s>>
        ELSE <<SubSeq(s, 1, dot - 1)>> \o SplitDots(SubSeq(s, dot + 1, Len(s)))

\* ".".join(parts)
RECURSIVE JoinDots(_)
JoinDots(parts) ==
    IF parts = <<>> THEN ""
    ELSE IF Len(parts) = 1 THEN parts[1]
    ELSE parts[1] \o "." \o JoinDots(Tail(parts))

UpperLetters == "ABCDEFGHIJKLMNOPQRSTUVWXYZ"
LowerLetters == "abcdefghijklmnopqrstuvwxyz"

LowerTable ==
    [c \in {CharAt(UpperLetters, i) : i \in 1..Len(UpperLetters)} |->
        CharAt(LowerLetters,
               CHOOSE i \in 1..Len(UpperLetters) : CharAt(UpperLetters, i) = c)]

LowerChar(c) == IF c \in DOMAIN LowerTable THEN LowerTable[c] ELSE c

\* str.lower
RECURSIVE Lower(_)
Lower(s) ==
    IF s = "" THEN ""
    ELSE LowerChar(CharAt(s, 1)) \o Lower(SubSeq(s, 2, Len(s)))

\* parts[:-k] for k >= 1
DropLast(parts, k) ==
    IF k >= Len(parts) THEN <<>> ELSE SubSeq(parts, 1, Len(parts) - k)

(***************************************************************************)
(* ultradns.py: get_zones, get_zone_name.                                  *)
(***************************************************************************)
\* Zone (ultradns_zone): name without the trailing ".", type and status
ZonePool ==
    {[name |-> n, authoritative_type |-> "PRIMARY", status |-> "ACTIVE"] :
        n \in {"com", "example.com", "ample.com", "b.example.com",
               "example.net"}}
    \cup {[name |-> "a.b.example.com", authoritative_type |-> "SECONDARY",
           status |-> "ACTIVE"]}

\* the hostnames get_zone_name is asked about
ZoneDomainPool ==
    {"a.b.example.com", "_acme-challenge.foo.example.com", "example.com",
     "notexample.com", "foo.com", "validate.example.org"}

\* get_zones: the names of the PRIMARY and ACTIVE zones, in the account's order
get_zones(account) ==
    LET eligible == SelectSeq(account, LAMBDA z :
                        z.authoritative_type = "PRIMARY" /\ z.status = "ACTIVE")
    IN  [i \in DOMAIN eligible |-> eligible[i].name]

\* the loop of get_zone_name over the zone list
RECURSIVE ZoneScan(_, _, _)
ZoneScan(domain, zs, zone_name) ==
    IF zs = <<>> THEN zone_name
    ELSE ZoneScan(domain, Tail(zs),
                  IF /\ EndsWith(domain, Head(zs))
                     /\ CountDots(Head(zs)) > CountDots(zone_name)
                  THEN Head(zs) ELSE zone_name)

\* get_zone_name: raises when zone_name is still "" after the loop
get_zone_name(domain, account) ==
    LET zone_name == ZoneScan(domain, get_zones(account), "")
    IN  [raised |-> zone_name = "", zone |-> zone_name]

NoZoneCall == [called |-> FALSE, raised |-> FALSE, zone |-> ""]

\* the zone list is what the pages of the remote API hold: get_zones keeps
\* every element, so a zone listed twice stays twice
ZoneInit ==
    /\ zones \in UNION {[1..n -> ZonePool] : n \in 0..MaxZones}
    /\ zdomain = ""
    /\ zresult = NoZoneCall

ZoneIdle ==
    /\ zones = <<>>
    /\ zdomain = ""
    /\ zresult = NoZoneCall

\* one call get_zone_name(domain, account_number)
GetZoneNameCall(domain) ==
    /\ zdomain' = domain
    /\ zresult' = [called |-> TRUE,
                   raised |-> get_zone_name(domain, zones).raised,
                   zone |-> get_zone_name(domain, zones).zone]
    /\ UNCHANGED zones
    /\ UNCHANGED <<handlerVars, orderVars, rrVars, pollVars, issuanceVars>>


(***************************************************************************)
(* acme_handlers.py: AcmeDnsHandler.autodetect_dns_providers.              *)
(***************************************************************************)
\* DnsProvider: provider_type, domains, options and credentials (the
\* acme_challenge_extension of each, "" when it has none)
Provider(id, provider_type, domains, options_ext, credentials_ext) ==
    [id |-> id, provider_type |-> provider_type, domains |-> domains,
     options |-> [acme_challenge_extension |-> options_ext],
     credentials |-> [account_id |-> id,
                      acme_challenge_extension |-> credentials_ext]]

\* the zone suffixes a configured provider may own
ProviderDomainPool == {"example.com", "b.example.com", "ample.com"}

\* the domains providers are looked up for
LookupDomainPool ==
    {"a.b.example.com", "example.com", "x.ample.com", "example.org"}

\* lines 433-438: one name of one provider against the domain
MatchName_ResetOnTie(domain, dns_provider, name, acc) ==
    IF name = domain \/ EndsWith(domain, "." \o name)
    THEN IF Len(name) >= acc.match_length
         THEN [list |-> <<dns_provider>>, match_length |-> Len(name)]
         ELSE acc
    ELSE acc

MatchName(domain, dns_provider, name, acc) ==
    IF name = domain \/ EndsWith(domain, "." \o name)
    THEN IF Len(name) > acc.match_length
         THEN [list |-> <<dns_provider>>, match_length |-> Len(name)]
         ELSE IF Len(name) = acc.match_length
         THEN [list |-> Append(acc.list, dns_provider),
               match_length |-> acc.match_length]
         ELSE acc
    ELSE acc

\* for name in dns_provider.domains
RECURSIVE ScanNames(_, _, _, _)
ScanNames(domain, dns_provider, names, acc) ==
    IF names = <<>> THEN acc
    ELSE ScanNames(domain, dns_provider, Tail(names),
                   MatchName(domain, dns_provider, Head(names), acc))

\* for dns_provider in self.all_dns_providers (one without domains is skipped)
RECURSIVE ScanProviders(_, _, _)
ScanProviders(domain, providers, acc) ==
    IF providers = <<>> THEN acc
    ELSE ScanProviders(domain, Tail(providers),
                       IF Head(providers).domains = <<>> THEN acc
                       ELSE ScanNames(domain, Head(providers),
                                      Head(providers).domains, acc))

\* autodetect_dns_providers: the new self.dns_providers_for_domain
autodetect_dns_providers(domain, providers, mapping) ==
    (domain :> ScanProviders(domain, providers,
                             [list |-> <<>>, match_length |-> 0]).list)
        @@ mapping

NoMapping == <<>>

HandlerInit ==
    /\ \E k \in 0..MaxProviders :
         \E ds \in [1..k -> DistinctSeqs(ProviderDomainPool, MaxProviderDomains)] :
            all_dns_providers =
                [i \in 1..k |-> Provider(i, "ultradns", ds[i], "", "")]
    /\ dns_providers_for_domain = NoMapping

HandlerIdle ==
    /\ all_dns_providers = <<>>
    /\ dns_providers_for_domain = NoMapping

\* one call self.autodetect_dns_providers(domain)
AutodetectCall(domain) ==
    /\ dns_providers_for_domain' =
            autodetect_dns_providers(domain, all_dns_providers,
                                     dns_providers_for_domain)
    /\ UNCHANGED all_dns_providers
    /\ UNCHANGED <<zoneVars, orderVars, rrVars, pollVars, issuanceVars>>

(***************************************************************************)
(* acme_handlers.py: strip_wildcard, get_dns_challenges.                   *)
(***************************************************************************)
\* strip_wildcard: the host without a leading "*.", and whether it had one
strip_wildcard(host) ==
    IF StartsWith(host, "*.")
    THEN [host |-> SubSeq(host, Len("*.") + 1, Len(host)), is_wildcard |-> TRUE]
    ELSE [host |-> host, is_wildcard |-> FALSE]

\* a challenge body of authorization number authz: its type and the token
\* its validation(key) gives
Challenge(typ, authz, n) ==
    [typ |-> typ, token |-> "t" \o ToString(authz) \o ToString(n)]

ChallengeShapes == {"dns", "http_dns", "http", "dns_dns"}

ChallengesOf(authz, shape) ==
    CASE shape = "dns" -> <<Challenge("dns-01", authz, 1)>>
      [] shape = "http_dns" -> <<Challenge("http-01", authz, 1),
                                 Challenge("dns-01", authz, 2)>>
      [] shape = "http" -> <<Challenge("http-01", authz, 1)>>
      [] shape = "dns_dns" -> <<Challenge("dns-01", authz, 1),
                                Challenge("dns-01", authz, 2)>>

\* authz.body: identifier.value, wildcard, challenges
Authorization(authz, identifier, wildcard, shape) ==
    [identifier |-> identifier, wildcard |-> wildcard,
     challenges |-> ChallengesOf(authz, shape)]

IdentifierPool == {"example.com", "EXAMPLE.com", "foo.example.com"}

ChallengeHostPool ==
    {"example.com", "*.example.com", "*.Example.COM", "foo.example.com"}

\* lines 270-278: the DNS-01 challenges one authorization contributes
AuthzChallenges_NoWildcardCheck(authz, domain_to_validate, is_wildcard) ==
    IF Lower(authz.identifier) # Lower(domain_to_validate) THEN <<>>
    ELSE IF is_wildcard /\ ~authz.wildcard THEN <<>>
    ELSE SelectSeq(authz.challenges, LAMBDA combo : combo.typ = "dns-01")

AuthzChallenges(authz, domain_to_validate, is_wildcard) ==
    IF Lower(authz.identifier) # Lower(domain_to_validate) THEN <<>>
    ELSE IF is_wildcard /\ ~authz.wildcard THEN <<>>
    ELSE IF ~is_wildcard /\ authz.wildcard THEN <<>>
    ELSE SelectSeq(authz.challenges, LAMBDA combo : combo.typ = "dns-01")

\* for authz in authorizations
RECURSIVE ScanAuthorizations(_, _, _)
ScanAuthorizations(authorizations, domain_to_validate, is_wildcard) ==
    IF authorizations = <<>> THEN <<>>
    ELSE AuthzChallenges(Head(authorizations), domain_to_validate, is_wildcard)
            \o ScanAuthorizations(Tail(authorizations), domain_to_validate,
                                  is_wildcard)

get_dns_challenges(host, authorizations) ==
    ScanAuthorizations(authorizations, strip_wildcard(host).host,
                       strip_wildcard(host).is_wildcard)

NoChallengeCall == [called |-> FALSE, dns_challenges |-> <<>>]

OrderInit ==
    /\ \E k \in 0..MaxAuthz :
         \E ids \in [1..k -> IdentifierPool], wcs \in [1..k -> BOOLEAN],
            shapes \in [1..k -> ChallengeShapes] :
            order_authorizations =
                [i \in 1..k |-> Authorization(i, ids[i], wcs[i], shapes[i])]
    /\ chost = ""
    /\ cresult = NoChallengeCall

OrderIdle ==
    /\ order_authorizations = <<>>
    /\ chost = ""
    /\ cresult = NoChallengeCall

\* one call self.get_dns_challenges(host, order.authorizations)
GetDnsChallengesCall(host) ==
    /\ chost' = host
    /\ cresult' = [called |-> TRUE,
                   dns_challenges |-> get_dns_challenges(host, order_authorizations)]
    /\ UNCHANGED order_authorizations
    /\ UNCHANGED <<zoneVars, handlerVars, rrVars, pollVars, issuanceVars>>

(***************************************************************************)
(* ultradns.py: create_txt_record, delete_txt_record and the REST calls    *)
(* _get, _delete, _post they make on a record set.                         *)
(***************************************************************************)
NoRRSets == <<>>

\* the requests of one call that fail in transport (raise_for_status raises)
BackendFaults == {{}, {"get"}, {"delete"}, {"post"}}

TokenPool == {"t" \o ToString(i) : i \in 1..MaxTokens}

\* the account's zone list while records are written
RRZones ==
    [i \in 1..3 |->
        [name |-> <<"com", "example.com", "b.example.com">>[i],
         authoritative_type |-> "PRIMARY", status |-> "ACTIVE"]]

\* the (domain, token) arguments of the calls: every token at one hostname,
\* one token at the apex of a zone, at a hostname outside the account's
\* zones and with no domain at all
RRCallPool ==
    ({"_acme-challenge.b.example.com"} \X TokenPool)
        \cup ({"example.com", "_acme-challenge.foo.example.org", ""} \X {"t1"})

\* node_name = ".".join(domain.split(".")[:-zone_parts])
node_name_of(domain, zone_name) ==
    JoinDots(DropLast(SplitDots(domain), Len(SplitDots(zone_name))))

\* _get(path): the rdata of the record set; fails when the set is absent
get_fails(sets, path, faults) == "get" \in faults \/ path \notin DOMAIN sets

\* _delete(path): the record set is removed
rrsets_without(sets, path) == [k \in (DOMAIN sets) \ {path} |-> sets[k]]

\* _post(path, {"rdata": rdata}): fails on a value the set already holds,
\* otherwise the values are added to the set (created when absent)
post_fails(sets, path, rdata, faults) ==
    \/ "post" \in faults
    \/ path \in DOMAIN sets /\ Range(sets[path]) \cap Range(rdata) # {}

rrsets_posted(sets, path, rdata) ==
    (path :> (IF path \in DOMAIN sets THEN sets[path] ELSE <<>>) \o rdata) @@ sets

\* list.remove(token): the list without the first occurrence of token
RemoveFirst(rdata, token) ==
    LET at == CHOOSE i \in DOMAIN rdata :
                rdata[i] = token /\ \A j \in 1..(i - 1) : rdata[j] # token
    IN  SubSeq(rdata, 1, at - 1) \o SubSeq(rdata, at + 1, Len(rdata))

\* create_txt_record: the change id and the record sets afterwards
create_txt_record(domain, token, account, sets, faults) ==
    LET zone == get_zone_name(domain, account)
        node_name == node_name_of(domain, zone.zone)
        fqdn == node_name \o "." \o zone.zone
        path == <<zone.zone, node_name>>
    IN  IF zone.raised
        THEN [raised |-> TRUE, zone_found |-> FALSE, path |-> <<>>,
              change_id |-> <<>>, rrsets |-> sets]
        ELSE [raised |-> FALSE, zone_found |-> TRUE, path |-> path,
              change_id |-> <<fqdn, token>>,
              rrsets |-> IF post_fails(sets, path, <<token>>, faults) THEN sets
                         ELSE rrsets_posted(sets, path, <<token>>)]

\* lines 243-261 of delete_txt_record, once the record set has been read
delete_from_set_NoRecreate(sets, path, token, faults) ==
    IF token \notin Range(sets[path])
    THEN [raised |-> FALSE, rrsets |-> sets]
    ELSE IF "delete" \in faults
    THEN [raised |-> TRUE, rrsets |-> sets]
    ELSE [raised |-> FALSE, rrsets |-> rrsets_without(sets, path)]

delete_from_set(sets, path, token, faults) ==
    LET rdata == RemoveFirst(sets[path], token)
        removed == rrsets_without(sets, path)
    IN  IF token \notin Range(sets[path])
        THEN [raised |-> FALSE, rrsets |-> sets]
        ELSE IF "delete" \in faults
        THEN [raised |-> TRUE, rrsets |-> sets]
        ELSE IF Len(rdata) > 0
        THEN IF post_fails(removed, path, rdata, faults)
             THEN [raised |-> TRUE, rrsets |-> removed]
             ELSE [raised |-> FALSE, rrsets |-> rrsets_posted(removed, path, rdata)]
        ELSE [raised |-> FALSE, rrsets |-> removed]

\* delete_txt_record: whether it raises and the record sets afterwards
delete_txt_record(domain, token, account, sets, faults) ==
    LET zone == get_zone_name(domain, account)
        path == <<zone.zone, node_name_of(domain, zone.zone)>>
    IN  IF domain = ""
        THEN [raised |-> FALSE, zone_found |-> FALSE, path |-> <<>>, rrsets |-> sets]
        ELSE IF zone.raised
        THEN [raised |-> TRUE, zone_found |-> FALSE, path |-> <<>>, rrsets |-> sets]
        ELSE IF get_fails(sets, path, faults)
        THEN [raised |-> FALSE, zone_found |-> TRUE, path |-> path, rrsets |-> sets]
        ELSE [raised |-> delete_from_set(sets, path, token, faults).raised,
              zone_found |-> TRUE, path |-> path,
              rrsets |-> delete_from_set(sets, path, token, faults).rrsets]

NoRRCall ==
    [op |-> "none", domain |-> "", token |-> "", faults |-> {}, before |-> NoRRSets,
     raised |-> FALSE, zone_found |-> FALSE, path |-> <<>>, change_id |-> <<>>]

\* no concurrent attempt
NoCallers == <<>>

RRInit ==
    /\ rrsets = NoRRSets
    /\ rr_call = NoRRCall
    /\ callers = NoCallers

RRIdle == RRInit

\* one call create_txt_record(domain, token, account_number)
CreateTxtRecordCall(domain, token, faults) ==
    LET r == create_txt_record(domain, token, zones, rrsets, faults)
    IN  /\ rrsets' = r.rrsets
        /\ rr_call' = [op |-> "create", domain |-> domain, token |-> token,
                       faults |-> faults, before |-> rrsets, raised |-> r.raised,
                       zone_found |-> r.zone_found, path |-> r.path,
                       change_id |-> r.change_id]
        /\ UNCHANGED <<zoneVars, handlerVars, orderVars, pollVars, issuanceVars,
                       callers>>

\* one call delete_txt_record(change_id, account_number, domain, token)
DeleteTxtRecordCall(domain, token, faults) ==
    LET r == delete_txt_record(domain, token, zones, rrsets, faults)
    IN  /\ rrsets' = r.rrsets
        /\ rr_call' = [op |-> "delete", domain |-> domain, token |-> token,
                       faults |-> faults, before |-> rrsets, raised |-> r.raised,
                       zone_found |-> r.zone_found, path |-> r.path,
                       change_id |-> <<>>]
        /\ UNCHANGED <<zoneVars, handlerVars, orderVars, pollVars, issuanceVars,
                       callers>>

(***************************************************************************)
(* Concurrent issuance attempts for the same hostname: every attempt       *)
(* creates the TXT record of its own token and deletes it later. Each      *)
(* request to UltraDNS (POST, GET, DELETE) is one step; the steps of the   *)
(* attempts interleave.                                                    *)
(***************************************************************************)
SharedHostname == "_acme-challenge.b.example.com"

TokenOf(caller) == "t" \o ToString(caller)

\* path of create_txt_record / delete_txt_record for the shared hostname
SharedPath ==
    LET zone == get_zone_name(SharedHostname, RRZones)
    IN  <<zone.zone, node_name_of(SharedHostname, zone.zone)>>

CallersInit ==
    /\ rrsets = NoRRSets
    /\ rr_call = NoRRCall
    /\ callers = [caller \in 1..MaxCallers |-> [at |-> "idle", rdata |-> <<>>]]

\* create_txt_record: _post(path, {"rdata": [token]}), its exception swallowed
CreatePost(caller) ==
    /\ caller \in DOMAIN callers
    /\ callers[caller].at = "idle"
    /\ rrsets' = IF post_fails(rrsets, SharedPath, <<TokenOf(caller)>>, {})
                  THEN rrsets
                  ELSE rrsets_posted(rrsets, SharedPath, <<TokenOf(caller)>>)
    /\ callers' = [callers EXCEPT ![caller].at = "created"]
    /\ UNCHANGED <<rr_call, zoneVars, handlerVars, orderVars, pollVars,
                   issuanceVars>>

\* delete_txt_record: rrsets = _get(path) and record.rdata.remove(token)
DeleteGet(caller) ==
    /\ caller \in DOMAIN callers
    /\ callers[caller].at = "created"
    /\ callers' =
            IF get_fails(rrsets, SharedPath, {})
            THEN [callers EXCEPT ![caller].at = "returned"]
            ELSE IF TokenOf(caller) \notin Range(rrsets[SharedPath])
            THEN [callers EXCEPT ![caller].at = "returned"]
            ELSE [callers EXCEPT
                    ![caller] = [at |-> "delete",
                                 rdata |-> RemoveFirst(rrsets[SharedPath],
                                                       TokenOf(caller))]]
    /\ UNCHANGED <<rrsets, rr_call, zoneVars, handlerVars, orderVars, pollVars,
                   issuanceVars>>

\* delete_txt_record: _delete(path), which raises when the set is gone
DeleteDelete(caller) ==
    /\ caller \in DOMAIN callers
    /\ callers[caller].at = "delete"
    /\ IF SharedPath \notin DOMAIN rrsets
       THEN /\ callers' = [callers EXCEPT ![caller].at = "raised"]
            /\ rrsets' = rrsets
       ELSE /\ rrsets' = rrsets_without(rrsets, SharedPath)
            /\ callers' = [callers EXCEPT ![caller].at =
                              IF Len(callers[caller].rdata) > 0
                              THEN "post" ELSE "returned"]
    /\ UNCHANGED <<rr_call, zoneVars, handlerVars, orderVars, pollVars,
                   issuanceVars>>

\* delete_txt_record: _post(path, {"rdata": record.rdata})
DeletePost(caller) ==
    /\ caller \in DOMAIN callers
    /\ callers[caller].at = "post"
    /\ IF post_fails(rrsets, SharedPath, callers[caller].rdata, {})
       THEN /\ callers' = [callers EXCEPT ![caller].at = "raised"]
            /\ rrsets' = rrsets
       ELSE /\ rrsets' = rrsets_posted(rrsets, SharedPath, callers[caller].rdata)
            /\ callers' = [callers EXCEPT ![caller].at = "returned"]
    /\ UNCHANGED <<rr_call, zoneVars, handlerVars, orderVars, pollVars,
                   issuanceVars>>

(***************************************************************************)
(* ultradns.py: _has_dns_propagated, wait_for_dns_change.                  *)
(***************************************************************************)
AuthoritativeResolver == "156.154.64.154"
PublicResolver == "8.8.8.8"

\* the change id polled for: (fqdn, token)
PolledChangeId == <<"_acme-challenge.foo.example.com", "t1">>

\* the answer of a resolver to its i-th TXT query: a DNSException, or the
\* strings of the TXT records, which hold the token from query first on
ResolverAnswer(stub, token, i) ==
    IF i \in stub.errors THEN [error |-> TRUE, txt |-> {}]
    ELSE IF i >= stub.first THEN [error |-> FALSE, txt |-> {"other", token}]
    ELSE [error |-> FALSE, txt |-> {"other"}]

ResolverStubs(firsts, errors) ==
    {[first |-> f, errors |-> e] : f \in firsts, e \in errors}

\* _has_dns_propagated: False on a DNSException, else whether a TXT string
\* equals the token
has_dns_propagated_ErrorMatches(answer, token) ==
    answer.error \/ token \in answer.txt

has_dns_propagated(answer, token) ==
    IF answer.error THEN FALSE ELSE token \in answer.txt

\* a loop of wait_for_dns_change ends after its attempt-th query when the
\* record was seen (break) or the range is exhausted
loop_ends_NoBreak(seen, attempt) == attempt >= number_of_attempts

loop_ends(seen, attempt) == seen \/ attempt >= number_of_attempts

\* line 123: the second loop is entered only if status is true after the
\* first
after_first_loop_Always(seen) == "public"

after_first_loop(seen) == IF seen THEN "public" ELSE "report"

PollIdle ==
    /\ wpc = "idle"
    /\ attempts = 0
    /\ status = FALSE
    /\ queries = [r \in {AuthoritativeResolver, PublicResolver} |-> 0]
    /\ sleeps = 0
    /\ wmetric = "none"
    /\ resolvers = [r \in {AuthoritativeResolver, PublicResolver} |->
                        [first |-> 1, errors |-> {}]]

PollInit ==
    /\ wpc = "authoritative"
    /\ attempts = 0
    /\ status = FALSE
    /\ queries = [r \in {AuthoritativeResolver, PublicResolver} |-> 0]
    /\ sleeps = 0
    /\ wmetric = "none"
    /\ \E a \in ResolverStubs(1..(number_of_attempts + 1), {{}, {1}, {2, 3}}),
          b \in ResolverStubs({1, 2, number_of_attempts, number_of_attempts + 1},
                              {{}, {1}}) :
            resolvers = (AuthoritativeResolver :> a) @@ (PublicResolver :> b)

\* lines 115-122: one pass of the first loop, a query to 156.154.64.154 and
\* the sleep after it
AuthoritativeQuery ==
    /\ wpc = "authoritative"
    /\ LET seen == has_dns_propagated(
                        ResolverAnswer(resolvers[AuthoritativeResolver],
                                       PolledChangeId[2], attempts + 1),
                        PolledChangeId[2])
       IN  /\ status' = seen
           /\ queries' = [queries EXCEPT ![AuthoritativeResolver] = @ + 1]
           /\ sleeps' = sleeps + 1
           /\ IF loop_ends(seen, attempts + 1)
              THEN /\ attempts' = 0
                   /\ wpc' = after_first_loop(seen)
              ELSE /\ attempts' = attempts + 1
                   /\ wpc' = wpc
    /\ UNCHANGED <<wmetric, resolvers>>
    /\ UNCHANGED <<zoneVars, handlerVars, orderVars, rrVars, issuanceVars>>

\* lines 123-130: one pass of the second loop, a query to 8.8.8.8, and the
\* sleep after it when the record was not seen
PublicQuery ==
    /\ wpc = "public"
    /\ LET seen == has_dns_propagated(
                        ResolverAnswer(resolvers[PublicResolver],
                                       PolledChangeId[2], attempts + 1),
                        PolledChangeId[2])
       IN  /\ status' = seen
           /\ queries' = [queries EXCEPT ![PublicResolver] = @ + 1]
           /\ sleeps' = IF seen THEN sleeps ELSE sleeps + 1
           /\ wmetric' = IF seen THEN "wait_for_dns_change_success" ELSE wmetric
           /\ IF loop_ends(seen, attempts + 1)
              THEN /\ attempts' = 0
                   /\ wpc' = "report"
              ELSE /\ attempts' = attempts + 1
                   /\ wpc' = wpc
    /\ UNCHANGED resolvers
    /\ UNCHANGED <<zoneVars, handlerVars, orderVars, rrVars, issuanceVars>>

\* lines 131-141: the failure is reported to metrics and sentry, and the
\* function returns None either way
ReportAndReturn ==
    /\ wpc = "report"
    /\ wpc' = "returned"
    /\ wmetric' = IF ~status THEN "wait_for_dns_change_fail" ELSE wmetric
    /\ UNCHANGED <<attempts, status, queries, sleeps, resolvers>>
    /\ UNCHANGED <<zoneVars, handlerVars, orderVars, rrVars, issuanceVars>>

(***************************************************************************)
(* acme_handlers.py: start_dns_challenge, get_authorizations, get_cname.   *)
(***************************************************************************)
\* challenges.DNS01.validation_domain_name: the label prepended to the name
validation_domain_name(name) == "_acme-challenge." \o name

\* maybe_add_extension: the acme_challenge_extension option, when set, is
\* appended to the host
maybe_add_extension(host, dns_provider_options) ==
    IF dns_provider_options.acme_challenge_extension # ""
    THEN host \o dns_provider_options.acme_challenge_extension
    ELSE host

\* get_dns_provider: the provider types it knows; any other raises
provider_types == {"cloudflare", "dyn", "route53", "ultradns", "powerdns"}

\* one call to a DNS provider plugin or to the ACME client: by which handler,
\* which call, for which AuthorizationRecord (its place in the list of
\* get_authorizations) and requested domain, with which provider,
\* hostname and token, and whether it went well (a create/delete/answer that
\* raised, a poll that did not see the record and a failed verification
\* have ok = FALSE)
Event(by, call, record, domain, provider, host, token, ok) ==
    [by |-> by, call |-> call, record |-> record, domain |-> domain,
     provider |-> provider, host |-> host, token |-> token, ok |-> ok]

\* what goes wrong in the environment during one handler: nothing, or one
\* kind of failure for one provider and one token
NoFault == [kind |-> "none", provider |-> 0, token |-> ""]

Fault(kind, provider, token) ==
    [kind |-> kind, provider |-> provider, token |-> token]

Hits(fault, kind, provider, token) == fault = Fault(kind, provider, token)

\* the CNAME records of the DNS: the answer to dns.resolver.query(name, CNAME)
CnameAnswers ==
    [name \in {"_acme-challenge.foo.example.com"} |-> "validate.example.net."]

\* the names whose CNAME lookup raises a dns.exception.DNSException
CnameErrors ==
    {"_acme-challenge.bar.example.org", "_acme-challenge.www.example.net"}

\* str.rstrip(".")
RECURSIVE RStripDots(_)
RStripDots(s) ==
    IF s # "" /\ CharAt(s, Len(s)) = "."
    THEN RStripDots(SubSeq(s, 1, Len(s) - 1))
    ELSE s

\* get_cname: the first CNAME target without its trailing dot; "" stands for
\* the False returned on a DNSException (no answer, NXDOMAIN, timeout)
get_cname_ErrorIsTarget(name) ==
    IF name \in CnameErrors THEN name
    ELSE IF name \in DOMAIN CnameAnswers THEN RStripDots(CnameAnswers[name])
    ELSE ""

get_cname(name) ==
    IF name \in CnameErrors THEN ""
    ELSE IF name \in DOMAIN CnameAnswers THEN RStripDots(CnameAnswers[name])
    ELSE ""

\* lines 317-328: the loop of start_dns_challenge over the DNS-01 challenges
RECURSIVE CreateRecords(_, _, _, _, _, _, _)
CreateRecords(record, domain, target_domain, dns_provider, dns_challenges, host_to_validate, fault) ==
    IF dns_challenges = <<>>
    THEN [raised |-> "", change_ids |-> <<>>, events |-> <<>>]
    ELSE LET host == IF domain = target_domain
                     THEN validation_domain_name(host_to_validate)
                     ELSE host_to_validate
             token == Head(dns_challenges).token
             rest == CreateRecords(record, domain, target_domain, dns_provider,
                                   Tail(dns_challenges), host, fault)
         IN  IF Hits(fault, "create_raises", dns_provider.id, token)
             THEN [raised |-> "ProviderError", change_ids |-> <<>>,
                   events |-> <<Event("get_authorizations", "create_txt_record",
                                      record, domain, dns_provider.id, host, token,
                                      FALSE)>>]
             ELSE [raised |-> rest.raised,
                   change_ids |-> <<<<host, token>>>> \o rest.change_ids,
                   events |-> <<Event("get_authorizations", "create_txt_record",
                                      record, domain, dns_provider.id, host, token,
                                      TRUE)>>
                                \o rest.events]

AuthorizationRecord(domain, target_domain, authz, dns_challenge, change_id) ==
    [domain |-> domain, target_domain |-> target_domain, authz |-> authz,
     dns_challenge |-> dns_challenge, change_id |-> change_id]

\* start_dns_challenge: the record it returns, or the exception it raises,
\* and the provider calls it makes
start_dns_challenge_NoCheck(record, domain, target_domain, dns_provider, order, fault) ==
    LET dns_challenges == get_dns_challenges(domain, order)
    IN  [raised |-> "", events |-> <<>>,
         authz_record |->
            AuthorizationRecord(domain, target_domain, order, dns_challenges,
                                <<>>)]

start_dns_challenge(record, domain, target_domain, dns_provider, order, fault) ==
    LET dns_challenges == get_dns_challenges(domain, order)
        host_to_validate ==
            maybe_add_extension(strip_wildcard(target_domain).host,
                                dns_provider.options)
        made == CreateRecords(record, domain, target_domain, dns_provider,
                              dns_challenges, host_to_validate, fault)
    IN  IF dns_challenges = <<>>
        THEN [raised |-> "NoDnsChallenge", events |-> <<>>, authz_record |-> <<>>]
        ELSE [raised |-> made.raised, events |-> made.events,
              authz_record |->
                AuthorizationRecord(domain, target_domain, order,
                                    dns_challenges, made.change_ids)]

\* lines 405-418: for dns_provider in self.dns_providers_for_domain[target]
RECURSIVE StartForProviders(_, _, _, _, _, _)
StartForProviders(domain, target_domain, dns_providers, order, fault, records) ==
    IF dns_providers = <<>>
    THEN [raised |-> "", authorizations |-> records, events |-> <<>>]
    ELSE IF Head(dns_providers).provider_type \notin provider_types
    THEN [raised |-> "UnknownProvider", authorizations |-> records,
          events |-> <<>>]
    ELSE LET started == start_dns_challenge(Len(records) + 1, domain,
                                            target_domain, Head(dns_providers),
                                            order, fault)
             rest == StartForProviders(domain, target_domain,
                                       Tail(dns_providers), order, fault,
                                       Append(records, started.authz_record))
         IN  IF started.raised # ""
             THEN [raised |-> started.raised, authorizations |-> records,
                   events |-> started.events]
             ELSE [raised |-> rest.raised, authorizations |-> rest.authorizations,
                   events |-> started.events \o rest.events]

\* lines 390-397: the target domain of a domain and the provider mapping
\* after the CNAME lookup
resolve_target_Undelegated(domain, delegated_cname, providers, mapping) ==
    [target_domain |-> domain, mapping |-> mapping, events |-> <<>>]

resolve_target(domain, delegated_cname, providers, mapping) ==
    LET cname_result ==
            get_cname(validation_domain_name(strip_wildcard(domain).host))
    IN  IF delegated_cname /\ cname_result # ""
        THEN [target_domain |-> cname_result,
              mapping |-> autodetect_dns_providers(cname_result, providers,
                                                   mapping),
              events |-> <<Event("get_authorizations",
                                 "autodetect_dns_providers", 0, domain, 0,
                                 cname_result, "", TRUE)>>]
        ELSE [target_domain |-> domain, mapping |-> mapping, events |-> <<>>]

\* lines 399-403: no provider for the target domain
no_dns_provider_NoCheck(target_domain, mapping) == FALSE

no_dns_provider(target_domain, mapping) ==
    target_domain \notin DOMAIN mapping \/ mapping[target_domain] = <<>>

\* get_authorizations: for domain in order_info.domains
RECURSIVE GetAuthorizationsLoop(_, _, _, _, _, _, _)
GetAuthorizationsLoop(domains, delegated_cname, providers, mapping, order, fault, records) ==
    IF domains = <<>>
    THEN [raised |-> "", failed_domain |-> "", authorizations |-> records,
          mapping |-> mapping, events |-> <<>>]
    ELSE LET domain == Head(domains)
             resolved == resolve_target(domain, delegated_cname, providers,
                                        mapping)
             started ==
                StartForProviders(domain, resolved.target_domain,
                    IF resolved.target_domain \in DOMAIN resolved.mapping
                    THEN resolved.mapping[resolved.target_domain] ELSE <<>>,
                    order, fault, records)
             rest == GetAuthorizationsLoop(Tail(domains), delegated_cname,
                                           providers, resolved.mapping, order,
                                           fault, started.authorizations)
         IN  IF no_dns_provider(resolved.target_domain, resolved.mapping)
             THEN [raised |-> "NoProviderForDomain", failed_domain |-> domain,
                   authorizations |-> records, mapping |-> resolved.mapping,
                   events |-> resolved.events]
             ELSE IF started.raised # ""
             THEN [raised |-> started.raised, failed_domain |-> domain,
                   authorizations |-> started.authorizations,
                   mapping |-> resolved.mapping,
                   events |-> resolved.events \o started.events]
             ELSE [raised |-> rest.raised, failed_domain |-> rest.failed_domain,
                   authorizations |-> rest.authorizations,
                   mapping |-> rest.mapping,
                   events |-> resolved.events \o started.events \o rest.events]

get_authorizations(domains, delegated_cname, providers, mapping, order, fault) ==
    GetAuthorizationsLoop(domains, delegated_cname, providers, mapping, order,
                          fault, <<>>)

(***************************************************************************)
(* acme_handlers.py: complete_dns_challenge, finalize_authorizations,      *)
(* cleanup_dns_challenges.                                                 *)
(***************************************************************************)
\* lines 352-365: wait_for_dns_change for every change id of the record. The
\* call returns None whether or not the record was seen (ultradns.py lines
\* 131-141); an exception it raises is re-raised
RECURSIVE WaitForChanges(_, _, _, _, _)
WaitForChanges(record, domain, dns_provider, change_ids, fault) ==
    IF change_ids = <<>> THEN [raised |-> "", events |-> <<>>]
    ELSE LET change_id == Head(change_ids)
             rest == WaitForChanges(record, domain, dns_provider,
                                    Tail(change_ids), fault)
             propagated ==
                /\ ~Hits(fault, "not_propagated", dns_provider.id, change_id[2])
                /\ ~Hits(fault, "wait_raises", dns_provider.id, change_id[2])
             event == Event("complete_dns_challenge", "wait_for_dns_change",
                            record, domain, dns_provider.id, change_id[1],
                            change_id[2], propagated)
         IN  IF Hits(fault, "wait_raises", dns_provider.id, change_id[2])
             THEN [raised |-> "ProviderError", events |-> <<event>>]
             ELSE [raised |-> rest.raised, events |-> <<event>> \o rest.events]

\* lines 367-374: response.simple_verify for every DNS-01 challenge
VerifyEvents(record, authz_record, dns_provider, fault) ==
    [i \in DOMAIN authz_record.dns_challenge |->
        Event("complete_dns_challenge", "simple_verify", record,
              authz_record.domain, dns_provider.id, authz_record.target_domain, authz_record.dns_challenge[i].token,
              ~Hits(fault, "verify_fails", dns_provider.id,
                    authz_record.dns_challenge[i].token))]

\* lines 347-382: the body of the loop over the providers. After the loop
\* over the challenges, verified, dns_challenge and response are those of
\* the last challenge
CompleteWithProvider(record, authz_record, dns_provider, fault) ==
    LET waited == WaitForChanges(record, authz_record.domain, dns_provider,
                                 authz_record.change_id, fault)
        verifies == VerifyEvents(record, authz_record, dns_provider, fault)
        last == authz_record.dns_challenge[Len(authz_record.dns_challenge)]
        verified == verifies[Len(verifies)].ok
        answer_ok == ~Hits(fault, "answer_raises", dns_provider.id, last.token)
        answer == Event("complete_dns_challenge", "answer_challenge", record,
                        authz_record.domain, dns_provider.id,
                        authz_record.target_domain, last.token, answer_ok)
    IN  IF dns_provider.provider_type \notin provider_types
        THEN [raised |-> "UnknownProvider", events |-> <<>>]
        ELSE IF waited.raised # ""
        THEN [raised |-> waited.raised, events |-> waited.events]
        ELSE IF ~verified
        THEN [raised |-> "VerificationFailed",
              events |-> waited.events \o verifies]
        ELSE [raised |-> IF answer_ok THEN "" ELSE "AcmeError",
              events |-> waited.events \o verifies \o <<answer>>]

RECURSIVE CompleteForProviders(_, _, _, _)
CompleteForProviders(record, authz_record, dns_providers, fault) ==
    IF dns_providers = <<>> THEN [raised |-> "", events |-> <<>>]
    ELSE LET done == CompleteWithProvider(record, authz_record,
                                          Head(dns_providers), fault)
             rest == CompleteForProviders(record, authz_record,
                                          Tail(dns_providers), fault)
         IN  IF done.raised # "" THEN done
             ELSE [raised |-> rest.raised, events |-> done.events \o rest.events]

\* complete_dns_challenge: the exception it raises ("" when it returns) and
\* the calls it makes
complete_dns_challenge(record, authz_record, mapping, fault) ==
    IF no_dns_provider(authz_record.target_domain, mapping)
    THEN [raised |-> "NoProviderForDomain", events |-> <<>>]
    ELSE CompleteForProviders(record, authz_record,
                              mapping[authz_record.target_domain], fault)

\* lines 443-444: for authz_record in authorizations
RECURSIVE CompleteAll(_, _, _, _)
CompleteAll(record, records, mapping, fault) ==
    IF record > Len(records) THEN [raised |-> "", events |-> <<>>]
    ELSE LET done == complete_dns_challenge(record, records[record], mapping,
                                            fault)
             rest == CompleteAll(record + 1, records, mapping, fault)
         IN  IF done.raised # "" THEN done
             ELSE [raised |-> rest.raised, events |-> done.events \o rest.events]

\* lines 456-459: the hostname finalize_authorizations deletes at
finalize_host(authz_record, dns_provider) ==
    LET host_to_validate ==
            maybe_add_extension(strip_wildcard(authz_record.target_domain).host,
                                dns_provider.credentials)
    IN  IF authz_record.domain = authz_record.target_domain
        THEN validation_domain_name(host_to_validate)
        ELSE host_to_validate

\* lines 449-465: for dns_provider in dns_providers, one delete_txt_record
\* each, whose exception is not caught
RECURSIVE FinalizeDeleteForProviders(_, _, _, _, _)
FinalizeDeleteForProviders(record, authz_record, dns_challenge, dns_providers, fault) ==
    IF dns_providers = <<>> THEN [raised |-> "", events |-> <<>>]
    ELSE LET dns_provider == Head(dns_providers)
             ok == ~Hits(fault, "delete_raises", dns_provider.id,
                         dns_challenge.token)
             event == Event("finalize_authorizations", "delete_txt_record",
                            record, authz_record.domain, dns_provider.id,
                            finalize_host(authz_record, dns_provider),
                            dns_challenge.token, ok)
             rest == FinalizeDeleteForProviders(record, authz_record,
                         dns_challenge, Tail(dns_providers), fault)
         IN  IF dns_provider.provider_type \notin provider_types
             THEN [raised |-> "UnknownProvider", events |-> <<>>]
             ELSE IF ~ok
             THEN [raised |-> "ProviderError", events |-> <<event>>]
             ELSE [raised |-> rest.raised, events |-> <<event>> \o rest.events]

\* lines 447-448: for dns_challenge in dns_challenges; iterating the None
\* that .get gives for a target domain without mapping raises TypeError
RECURSIVE FinalizeDeleteForChallenges(_, _, _, _, _)
FinalizeDeleteForChallenges(record, authz_record, dns_challenges, mapping, fault) ==
    IF dns_challenges = <<>> THEN [raised |-> "", events |-> <<>>]
    ELSE IF authz_record.target_domain \notin DOMAIN mapping
    THEN [raised |-> "TypeError", events |-> <<>>]
    ELSE LET done == FinalizeDeleteForProviders(record, authz_record,
                        Head(dns_challenges),
                        mapping[authz_record.target_domain], fault)
             rest == FinalizeDeleteForChallenges(record, authz_record,
                        Tail(dns_challenges), mapping, fault)
         IN  IF done.raised # "" THEN done
             ELSE [raised |-> rest.raised, events |-> done.events \o rest.events]

\* lines 445-446: for authz_record in authorizations
RECURSIVE FinalizeDeleteAll(_, _, _, _)
FinalizeDeleteAll(record, records, mapping, fault) ==
    IF record > Len(records) THEN [raised |-> "", events |-> <<>>]
    ELSE LET done == FinalizeDeleteForChallenges(record, records[record],
                        records[record].dns_challenge, mapping, fault)
             rest == FinalizeDeleteAll(record + 1, records, mapping, fault)
         IN  IF done.raised # "" THEN done
             ELSE [raised |-> rest.raised, events |-> done.events \o rest.events]

\* finalize_authorizations: the exception it raises ("" when it returns the
\* authorizations) and the calls it makes
finalize_authorizations_DeleteFirst(records, mapping, fault) ==
    LET completed == CompleteAll(1, records, mapping, fault)
        deleted == FinalizeDeleteAll(1, records, mapping, fault)
    IN  IF deleted.raised # "" THEN deleted
        ELSE [raised |-> completed.raised,
              events |-> deleted.events \o completed.events]

finalize_authorizations(records, mapping, fault) ==
    LET completed == CompleteAll(1, records, mapping, fault)
        deleted == FinalizeDeleteAll(1, records, mapping, fault)
    IN  IF completed.raised # "" THEN completed
        ELSE [raised |-> deleted.raised,
              events |-> completed.events \o deleted.events]

\* lines 494-509: for dns_challenge in dns_challenges, with the exception of
\* delete_txt_record caught; host_to_validate is carried from one challenge
\* to the next
RECURSIVE CleanupDeleteForChallenges(_, _, _, _, _, _)
CleanupDeleteForChallenges(record, authz_record, dns_provider, dns_challenges, host_to_validate, fault) ==
    IF dns_challenges = <<>> THEN <<>>
    ELSE LET host == IF authz_record.domain = authz_record.target_domain
                     THEN validation_domain_name(host_to_validate)
                     ELSE host_to_validate
         IN  <<Event("cleanup_dns_challenges", "delete_txt_record", record,
                     authz_record.domain, dns_provider.id, host, Head(dns_challenges).token,
                     ~Hits(fault, "delete_raises", dns_provider.id,
                           Head(dns_challenges).token))>>
                \o CleanupDeleteForChallenges(record, authz_record, dns_provider,
                        Tail(dns_challenges), host, fault)

\* lines 483-493: for dns_provider in dns_providers
RECURSIVE CleanupForProviders(_, _, _, _)
CleanupForProviders(record, authz_record, dns_providers, fault) ==
    IF dns_providers = <<>> THEN [raised |-> "", events |-> <<>>]
    ELSE LET dns_provider == Head(dns_providers)
             deletes == CleanupDeleteForChallenges(record, authz_record,
                            dns_provider, authz_record.dns_challenge,
                            maybe_add_extension(
                                strip_wildcard(authz_record.target_domain).host,
                                dns_provider.credentials),
                            fault)
             rest == CleanupForProviders(record, authz_record,
                                         Tail(dns_providers), fault)
         IN  IF dns_provider.provider_type \notin provider_types
             THEN [raised |-> "UnknownProvider", events |-> <<>>]
             ELSE [raised |-> rest.raised, events |-> deletes \o rest.events]

\* lines 481-482: for authz_record in authorizations; iterating the None
\* that .get gives for a target domain without mapping raises TypeError
RECURSIVE CleanupAll(_, _, _, _)
CleanupAll(record, records, mapping, fault) ==
    IF record > Len(records) THEN [raised |-> "", events |-> <<>>]
    ELSE LET done == CleanupForProviders(record, records[record],
                        mapping[records[record].target_domain], fault)
             rest == CleanupAll(record + 1, records, mapping, fault)
         IN  IF records[record].target_domain \notin DOMAIN mapping
             THEN [raised |-> "TypeError", events |-> <<>>]
             ELSE IF done.raised # "" THEN done
             ELSE [raised |-> rest.raised, events |-> done.events \o rest.events]

\* cleanup_dns_challenges: the exception that escapes it ("" when none) and
\* the calls it makes
cleanup_dns_challenges(records, mapping, fault) ==
    CleanupAll(1, records, mapping, fault)

(***************************************************************************)
(* One issuance attempt: the caller resolves the providers of the domains, *)
(* calls get_authorizations, then finalize_authorizations, and calls       *)
(* cleanup_dns_challenges on the AuthorizationRecords it holds when a step  *)
(* raises.                                                                 *)
(***************************************************************************)
NoException == [by |-> "", name |-> "", domain |-> ""]

\* the configured DNS providers of an issuance attempt
IssuanceProviders ==
    {<<Provider(1, "ultradns", <<"example.com">>, "", "")>>,
     <<Provider(1, "ultradns", <<"example.com">>, "", ""),
       Provider(2, "ultradns", <<"example.net", "example.com">>, "", "")>>,
     <<Provider(1, "ultradns", <<"com", "example.com">>, ".ext", ""),
       Provider(2, "ultradns", <<"example.net">>, ".ext", "")>>}

\* the names a certificate is requested for
IssuanceDomains ==
    {<<"foo.example.com">>, <<"*.example.com">>,
     <<"foo.example.com", "bar.example.org">>,
     <<"foo.example.com", "*.foo.example.com">>,
     <<"*.example.com", "www.example.net">>}

\* the authorizations of the order for these names, one for each name
OrderFor(domains, shapes) ==
    [i \in DOMAIN domains |->
        Authorization(i, strip_wildcard(domains[i]).host,
                      strip_wildcard(domains[i]).is_wildcard, shapes[i])]

\* the tokens of the DNS-01 challenges of the order
OrderTokens(order) ==
    {c.token : c \in UNION {Range(order[i].challenges) : i \in DOMAIN order}}

ProviderIds(providers) == {providers[i].id : i \in DOMAIN providers}

\* the failures of the environment of the given kinds during one handler
Faults(kinds) ==
    {NoFault} \cup
    {Fault(kind, provider, token) :
        kind \in kinds, provider \in ProviderIds(all_dns_providers),
        token \in OrderTokens(order_authorizations)}

IssuanceIdle ==
    /\ acme_enable_delegated_cname = FALSE
    /\ order_info_domains = <<>>
    /\ pc = "idle"
    /\ held_authorizations = <<>>
    /\ exception = NoException
    /\ trace = <<>>

IssuanceInit ==
    /\ acme_enable_delegated_cname \in BOOLEAN
    /\ order_info_domains \in IssuanceDomains
    /\ all_dns_providers \in IssuanceProviders
    /\ dns_providers_for_domain = NoMapping
    /\ \E shapes \in [DOMAIN order_info_domains -> ChallengeShapes],
          n \in {Len(order_info_domains) - 1, Len(order_info_domains)} :
            \* the order holds an authorization for every name, or lacks the
            \* one for the last name
            order_authorizations =
                SubSeq(OrderFor(order_info_domains, shapes), 1, n)
    /\ chost = ""
    /\ cresult = NoChallengeCall
    /\ pc = "start"
    /\ held_authorizations = <<>>
    /\ exception = NoException
    /\ trace = <<>>

\* for domain in order_info.domains: self.acme.autodetect_dns_providers(domain)
RECURSIVE AutodetectAll(_, _, _)
AutodetectAll(domains, providers, mapping) ==
    IF domains = <<>> THEN mapping
    ELSE AutodetectAll(Tail(domains), providers,
                       autodetect_dns_providers(Head(domains), providers, mapping))

ResolveProviders ==
    /\ pc = "start"
    /\ dns_providers_for_domain' =
            AutodetectAll(order_info_domains, all_dns_providers,
                          dns_providers_for_domain)
    /\ pc' = "resolved"
    /\ UNCHANGED <<all_dns_providers, acme_enable_delegated_cname,
                   order_info_domains, held_authorizations, exception, trace>>
    /\ UNCHANGED <<zoneVars, orderVars, rrVars, pollVars>>

\* authorizations = get_authorizations(acme_client, order, order_info); when
\* it raises, the caller holds no AuthorizationRecord
GetAuthorizations(fault) ==
    /\ pc = "resolved"
    /\ LET got == get_authorizations(order_info_domains,
                                     acme_enable_delegated_cname,
                                     all_dns_providers, dns_providers_for_domain,
                                     order_authorizations, fault)
       IN  /\ dns_providers_for_domain' = got.mapping
           /\ trace' = trace \o got.events
           /\ IF got.raised = ""
              THEN /\ pc' = "authorized"
                   /\ held_authorizations' = got.authorizations
                   /\ exception' = exception
              ELSE /\ pc' = "raised"
                   /\ held_authorizations' = held_authorizations
                   /\ exception' = [by |-> "get_authorizations",
                                    name |-> got.raised,
                                    domain |-> got.failed_domain]
    /\ UNCHANGED <<all_dns_providers, acme_enable_delegated_cname,
                   order_info_domains>>
    /\ UNCHANGED <<zoneVars, orderVars, rrVars, pollVars>>

\* finalize_authorizations(acme_client, authorizations)
FinalizeAuthorizations(fault) ==
    /\ pc = "authorized"
    /\ LET done == finalize_authorizations(held_authorizations,
                                           dns_providers_for_domain, fault)
       IN  /\ trace' = trace \o done.events
           /\ IF done.raised = ""
              THEN pc' = "finalized" /\ exception' = exception
              ELSE /\ pc' = "raised"
                   /\ exception' = [by |-> "finalize_authorizations",
                                    name |-> done.raised, domain |-> ""]
    /\ UNCHANGED <<handlerVars, acme_enable_delegated_cname,
                   order_info_domains, held_authorizations>>
    /\ UNCHANGED <<zoneVars, orderVars, rrVars, pollVars>>

\* cleanup_dns_challenges(acme_client, authorizations), after an exception
CleanupDnsChallenges(fault) ==
    /\ pc = "raised"
    /\ LET done == cleanup_dns_challenges(held_authorizations,
                                          dns_providers_for_domain, fault)
       IN  /\ trace' = trace \o done.events
           /\ IF done.raised = ""
              THEN pc' = "cleaned" /\ exception' = exception
              ELSE /\ pc' = "cleanup_raised"
                   /\ exception' = [by |-> "cleanup_dns_challenges",
                                    name |-> done.raised, domain |-> ""]
    /\ UNCHANGED <<handlerVars, acme_enable_delegated_cname,
                   order_info_domains, held_authorizations>>
    /\ UNCHANGED <<zoneVars, orderVars, rrVars, pollVars>>

(***************************************************************************)
(* cleanup_dns_challenges called on its own: the AuthorizationRecords were *)
(* made by get_authorizations of an earlier handler; the handler that      *)
(* cleans up has its own providers and provider mapping.                   *)
(***************************************************************************)
\* the providers the records were made with
RecordProviders ==
    <<Provider(1, "ultradns", <<"example.com">>, "", ""),
      Provider(2, "ultradns", <<"example.net">>, "", "")>>

\* the providers of the handler that cleans up; "nsone" is a provider type
\* get_dns_provider does not know
CleanupProviders ==
    {RecordProviders,
     <<Provider(1, "nsone", <<"example.com">>, "", ""),
       Provider(2, "ultradns", <<"example.net">>, "", "")>>,
     <<Provider(2, "ultradns", <<"example.net">>, "", "")>>}

\* the names of the earlier attempt
CleanupDomains ==
    {<<"foo.example.com">>, <<"*.example.com">>,
     <<"www.example.net", "foo.example.com">>,
     <<"*.example.com", "www.example.net">>}

CleanupInit ==
    /\ acme_enable_delegated_cname = FALSE
    /\ order_info_domains \in CleanupDomains
    /\ all_dns_providers \in CleanupProviders
    /\ dns_providers_for_domain \in
            {NoMapping,
             AutodetectAll(order_info_domains, all_dns_providers, NoMapping)}
    /\ \E shapes \in [DOMAIN order_info_domains -> {"dns", "http_dns", "dns_dns"}] :
            order_authorizations = OrderFor(order_info_domains, shapes)
    /\ chost = ""
    /\ cresult = NoChallengeCall
    /\ pc = "raised"
    /\ held_authorizations =
            get_authorizations(order_info_domains, FALSE, RecordProviders,
                AutodetectAll(order_info_domains, RecordProviders, NoMapping),
                order_authorizations, NoFault).authorizations
    /\ exception = [by |-> "finalize_authorizations", name |-> "ProviderError",
                    domain |-> ""]
    /\ trace = <<>>

(***************************************************************************)
(* The specifications.                                                     *)
(***************************************************************************)
InitZone == ZoneInit /\ HandlerIdle /\ OrderIdle /\ RRIdle /\ PollIdle /\ IssuanceIdle

NextZone == \E domain \in ZoneDomainPool : GetZoneNameCall(domain)

SpecZone == InitZone /\ [][NextZone]_vars

InitProviders == HandlerInit /\ ZoneIdle /\ OrderIdle /\ RRIdle /\ PollIdle /\ IssuanceIdle

NextProviders == \E domain \in LookupDomainPool : AutodetectCall(domain)

SpecProviders == InitProviders /\ [][NextProviders]_vars

InitChallenges ==
    OrderInit /\ ZoneIdle /\ HandlerIdle /\ RRIdle /\ PollIdle /\ IssuanceIdle

NextChallenges == \E host \in ChallengeHostPool : GetDnsChallengesCall(host)

SpecChallenges == InitChallenges /\ [][NextChallenges]_vars

InitRecordSets ==
    /\ zones = RRZones
    /\ zdomain = ""
    /\ zresult = NoZoneCall
    /\ RRInit
    /\ HandlerIdle
    /\ OrderIdle
    /\ PollIdle
    /\ IssuanceIdle

NextRecordSets ==
    \E call \in RRCallPool, faults \in BackendFaults :
        \/ CreateTxtRecordCall(call[1], call[2], faults)
        \/ DeleteTxtRecordCall(call[1], call[2], faults)

SpecRecordSets == InitRecordSets /\ [][NextRecordSets]_vars

InitCallers ==
    /\ zones = RRZones
    /\ zdomain = ""
    /\ zresult = NoZoneCall
    /\ CallersInit
    /\ HandlerIdle
    /\ OrderIdle
    /\ PollIdle
    /\ IssuanceIdle

NextCallers ==
    \E caller \in 1..MaxCallers :
        \/ CreatePost(caller)
        \/ DeleteGet(caller)
        \/ DeleteDelete(caller)
        \/ DeletePost(caller)

SpecCallers == InitCallers /\ [][NextCallers]_vars

InitPoll ==
    PollInit /\ ZoneIdle /\ HandlerIdle /\ OrderIdle /\ RRIdle /\ IssuanceIdle

NextPoll == AuthoritativeQuery \/ PublicQuery \/ ReportAndReturn

\* every query answers or times out and every sleep ends, so a call of
\* wait_for_dns_change that can take a step takes it
SpecPoll == InitPoll /\ [][NextPoll]_vars /\ WF_vars(NextPoll)

Init == IssuanceInit /\ ZoneIdle /\ RRIdle /\ PollIdle

Next ==
    \/ ResolveProviders
    \/ \E fault \in Faults({"create_raises"}) : GetAuthorizations(fault)
    \/ \E fault \in Faults({"not_propagated", "wait_raises", "verify_fails",
                             "answer_raises", "delete_raises"}) :
            FinalizeAuthorizations(fault)
    \/ \E fault \in Faults({"delete_raises"}) : CleanupDnsChallenges(fault)

Spec == Init /\ [][Next]_vars

InitCleanup == CleanupInit /\ ZoneIdle /\ RRIdle /\ PollIdle

NextCleanup ==
    \E fault \in Faults({"delete_raises"}) : CleanupDnsChallenges(fault)

SpecCleanup == InitCleanup /\ [][NextCleanup]_vars

(***************************************************************************)
(* Claims about get_zone_name.                                             *)
(***************************************************************************)
\* zone owns domain: equal, or domain ends with "." + zone
LabelMatch(domain, zone) == domain = zone \/ EndsWith(domain, "." \o zone)

NumLabels(name) == Len(SplitDots(name))

MatchingZones(domain, account) ==
    {z \in Range(get_zones(account)) : LabelMatch(domain, z)}

\* C10: get_zone_name returns, among the zones that equal the domain or of
\* which the domain ends with "." + zone, one with the most labels; it returns
\* a zone whenever one matches (a single-label zone too) and raises only when
\* none matches, so a zone that is a suffix without a label boundary is never
\* selected.
C10_MostSpecificLabelMatch ==
    zresult.called =>
        IF MatchingZones(zdomain, zones) = {}
        THEN zresult.raised
        ELSE /\ ~zresult.raised
             /\ zresult.zone \in MatchingZones(zdomain, zones)
             /\ \A z \in MatchingZones(zdomain, zones) :
                    NumLabels(z) <= NumLabels(zresult.zone)

\* the positions of the zone list that get_zone_name matches with the domain
\* with the most labels among the matches
MostSpecificMatches(domain, account) ==
    LET zs == get_zones(account)
        matches == {i \in DOMAIN zs : EndsWith(domain, zs[i])}
    IN  {i \in matches :
            \A j \in matches : NumLabels(zs[j]) <= NumLabels(zs[i])}

\* two or more zones of the account match the domain with the same, largest,
\* number of labels
ZoneTie(domain, account) == Cardinality(MostSpecificMatches(domain, account)) > 1

\* C25: when two or more zones of the account match the domain with the same
\* number of labels, get_zone_name raises instead of returning one of them.
C25_TieIsFlagged ==
    (zresult.called /\ ZoneTie(zdomain, zones)) => zresult.raised

(***************************************************************************)
(* Claims about autodetect_dns_providers.                                  *)
(***************************************************************************)
\* the suffixes of domain that the provider owns
OwnedSuffixes(dns_provider, domain) ==
    {name \in Range(dns_provider.domains) : LabelMatch(domain, name)}

AllOwnedSuffixes(domain) ==
    UNION {OwnedSuffixes(p, domain) : p \in Range(all_dns_providers)}

LongestOwners(domain) ==
    {p \in Range(all_dns_providers) :
        \E name \in OwnedSuffixes(p, domain) :
            \A other \in AllOwnedSuffixes(domain) : Len(other) <= Len(name)}

HasWildcardPrefix(host) == Len(host) >= 2 /\ SubSeq(host, 1, 2) = "*."

WithoutWildcardPrefix(host) ==
    IF HasWildcardPrefix(host) THEN SubSeq(host, 3, Len(host)) ELSE host

\* C7: every challenge get_dns_challenges returns is a DNS-01 challenge of an
\* authorization whose identifier equals the wildcard-stripped host, case
\* ignored, and whose wildcard flag equals the presence of "*." on the host.
C7_WildcardFlagAgrees ==
    cresult.called =>
        LET agreeing ==
                {i \in DOMAIN order_authorizations :
                    /\ Lower(order_authorizations[i].identifier)
                            = Lower(WithoutWildcardPrefix(chost))
                    /\ order_authorizations[i].wildcard = HasWildcardPrefix(chost)}
        IN  \A c \in Range(cresult.dns_challenges) :
                /\ c.typ = "dns-01"
                /\ \E i \in agreeing :
                        c \in Range(order_authorizations[i].challenges)

\* a host whose challenges were returned from one authorization while another
\* authorization for the same identifier, with the other wildcard flag and a
\* DNS-01 challenge, was passed over
C7_Witness ==
    /\ cresult.called
    /\ cresult.dns_challenges # <<>>
    /\ \E i \in DOMAIN order_authorizations :
            /\ Lower(order_authorizations[i].identifier)
                    = Lower(WithoutWildcardPrefix(chost))
            /\ order_authorizations[i].wildcard # HasWildcardPrefix(chost)
            /\ \E c \in Range(order_authorizations[i].challenges) :
                    c.typ = "dns-01"

(***************************************************************************)
(* Claims about delete_txt_record.                                         *)
(***************************************************************************)
\* the values of the record set at path, none when the set does not exist
ValuesAt(sets, path) == IF path \in DOMAIN sets THEN Range(sets[path]) ELSE {}

\* C8: delete_txt_record on the record set of a hostname (a hostname for
\* which a zone is found): when the token is not in the set, or the set does
\* not exist, the remote record sets are unchanged and nothing is raised;
\* when no request fails in transport, a set holding only the token is
\* removed entirely, and a set holding other values too holds afterwards
\* exactly the previous values minus the token. No other set is touched.
C8_DeleteEffects ==
    (rr_call.op = "delete" /\ rr_call.zone_found) =>
        LET before == rr_call.before
            path == rr_call.path
            token == rr_call.token
        IN  /\ \A other \in (DOMAIN before \cup DOMAIN rrsets) \ {path} :
                    /\ other \in DOMAIN before /\ other \in DOMAIN rrsets
                    /\ rrsets[other] = before[other]
            /\ token \notin ValuesAt(before, path) =>
                    rrsets = before /\ ~rr_call.raised
            /\ (rr_call.faults = {} /\ ValuesAt(before, path) = {token}) =>
                    path \notin DOMAIN rrsets /\ ~rr_call.raised
            /\ (/\ rr_call.faults = {}
                /\ token \in ValuesAt(before, path)
                /\ ValuesAt(before, path) # {token}) =>
                    /\ path \in DOMAIN rrsets
                    /\ Range(rrsets[path]) = Range(before[path]) \ {token}
                    /\ Len(rrsets[path]) = Len(before[path]) - 1
                    /\ ~rr_call.raised

\* a deletion, with no failing request, of one of the two values of a set
C8_Witness ==
    /\ rr_call.op = "delete"
    /\ rr_call.zone_found
    /\ rr_call.faults = {}
    /\ Cardinality(ValuesAt(rr_call.before, rr_call.path)) = 2
    /\ rr_call.token \in ValuesAt(rr_call.before, rr_call.path)
    /\ Cardinality(ValuesAt(rrsets, rr_call.path)) = 1

(***************************************************************************)
(* Claims about wait_for_dns_change.                                       *)
(***************************************************************************)
\* the queries at which the resolver reports the token
ReportingQueries(resolver) ==
    {i \in 1..number_of_attempts :
        LET answer == ResolverAnswer(resolvers[resolver], PolledChangeId[2], i)
        IN  ~answer.error /\ PolledChangeId[2] \in answer.txt}

PhaseOneOver == wpc \in {"public", "report", "returned"}

C9_PhaseOne ==
    /\ PhaseOneOver =>
            \A K \in ReportingQueries(AuthoritativeResolver) :
                (\A j \in ReportingQueries(AuthoritativeResolver) : K <= j)
                    => queries[AuthoritativeResolver] = K
    /\ ReportingQueries(AuthoritativeResolver) = {} =>
            /\ queries[PublicResolver] = 0
            /\ PhaseOneOver =>
                    /\ queries[AuthoritativeResolver] = number_of_attempts
                    /\ ~status
            /\ wpc = "returned" => wmetric = "wait_for_dns_change_fail"

\* C9: wait_for_dns_change always terminates; when the authoritative
\* resolver first reports the token at its K-th query, phase 1 ends after
\* exactly K queries; when it never does, phase 1 ends after exactly 20
\* queries, the result is not-propagated and the public resolver is never
\* queried.
C9_PollTerminates == []C9_PhaseOne /\ <>(wpc = "returned")

\* a call that returned after the authoritative resolver first reported the
\* token at a query later than its first and before its last
C9_Witness ==
    /\ wpc = "returned"
    /\ queries[AuthoritativeResolver] > 1
    /\ queries[AuthoritativeResolver] < number_of_attempts
    /\ queries[PublicResolver] > 0

\* the queries already sent to the resolver at which it reported the token
Observed(resolver) ==
    {i \in ReportingQueries(resolver) : i <= queries[resolver]}

\* C17: the public resolver is queried only if the authoritative resolver
\* reported the token; it is queried at most 20 times and not again after
\* its first report; the call ends with success (status true, the success
\* metric sent) if and only if the public resolver reported the token; the
\* call sends at most 40 queries.
C17_PhaseTwo ==
    /\ queries[PublicResolver] > 0 => Observed(AuthoritativeResolver) # {}
    /\ queries[PublicResolver] <= number_of_attempts
    /\ \A i \in Observed(PublicResolver) : i = queries[PublicResolver]
    /\ wpc = "returned" =>
            /\ status <=> Observed(PublicResolver) # {}
            /\ status <=> wmetric = "wait_for_dns_change_success"
            /\ ~status <=> wmetric = "wait_for_dns_change_fail"
            /\ (Observed(AuthoritativeResolver) # {}
                    /\ Observed(PublicResolver) = {})
                        => queries[PublicResolver] = number_of_attempts
    /\ queries[AuthoritativeResolver] + queries[PublicResolver]
            <= 2 * number_of_attempts

\* a call that returned without success after the authoritative resolver
\* reported the token and the public resolver never did
C17_Witness ==
    /\ wpc = "returned"
    /\ ~status
    /\ Observed(AuthoritativeResolver) # {}
    /\ queries[PublicResolver] = number_of_attempts

\* the queries already sent to the resolver that ended in a DNSException
Errored(resolver) ==
    {i \in resolvers[resolver].errors : i <= queries[resolver]}

\* C18: a query that errors counts as a non-match for its attempt only:
\* status is false after it, the call does not end its loop at it while
\* attempts remain, and the next attempt is made.
C18_ErrorIsNonMatch ==
    /\ (wpc = "authoritative" /\ queries[AuthoritativeResolver] > 0
            /\ queries[AuthoritativeResolver] \in Errored(AuthoritativeResolver))
                => ~status
    /\ (wpc = "public" /\ queries[PublicResolver] > 0
            /\ queries[PublicResolver] \in Errored(PublicResolver))
                => ~status
    /\ PhaseOneOver =>
            \A i \in Errored(AuthoritativeResolver) :
                i < number_of_attempts => queries[AuthoritativeResolver] > i
    /\ wpc \in {"report", "returned"} =>
            \A i \in Errored(PublicResolver) :
                i < number_of_attempts => queries[PublicResolver] > i

\* a call that returned after queries to both resolvers had errored
C18_Witness ==
    /\ wpc = "returned"
    /\ Cardinality(Errored(AuthoritativeResolver)) = 2
    /\ Errored(PublicResolver) # {}
    /\ status

(***************************************************************************)
(* Claims about one issuance attempt.                                      *)
(***************************************************************************)
EventsOf(by, call) ==
    {i \in DOMAIN trace : trace[i].by = by /\ trace[i].call = call}

Answers == EventsOf("complete_dns_challenge", "answer_challenge")

Waits == EventsOf("complete_dns_challenge", "wait_for_dns_change")

Creates == EventsOf("get_authorizations", "create_txt_record")

FinalizeDeletes == EventsOf("finalize_authorizations", "delete_txt_record")

CleanupDeletes == EventsOf("cleanup_dns_challenges", "delete_txt_record")

SameRecord(i, j) ==
    /\ trace[i].provider = trace[j].provider
    /\ trace[i].host = trace[j].host
    /\ trace[i].token = trace[j].token

\* C1: answer_challenge is called for an AuthorizationRecord only after
\* wait_for_dns_change reported success for every change id of the record;
\* when a poll ends without having seen the token, finalize_authorizations
\* raises and answer_challenge is not called for that record.
C1_AnswerOnlyAfterPropagation ==
    /\ \A a \in Answers : \A w \in Waits :
            (trace[w].record = trace[a].record
                /\ trace[w].provider = trace[a].provider) => trace[w].ok
    /\ \A w \in Waits :
            ~trace[w].ok => /\ pc \in {"raised", "cleaned", "cleanup_raised"}
                            /\ exception.by = "finalize_authorizations"

\* C2: at the end of an issuance attempt, every TXT record that
\* create_txt_record created has had a delete_txt_record call, by
\* finalize_authorizations or by cleanup_dns_challenges, also when
\* get_authorizations raised after some records were created.
C2_EveryCreatedRecordDeleted ==
    pc \in {"finalized", "cleaned", "cleanup_raised"} =>
        \A c \in Creates :
            trace[c].ok =>
                \E d \in FinalizeDeletes \cup CleanupDeletes : SameRecord(c, d)

\* C3: when finalize_authorizations has returned, it has called
\* delete_txt_record exactly once for every created (provider, hostname,
\* token), also with two providers for a target domain and with several
\* DNS-01 challenges in a record.
C3_FinalizeDeletesExactlyOnce ==
    pc = "finalized" =>
        \A c \in Creates :
            Cardinality({d \in FinalizeDeletes : SameRecord(c, d)}) = 1

\* the target domain get_authorizations validates a domain at
TargetOf(domain) ==
    LET cname == get_cname("_acme-challenge." \o strip_wildcard(domain).host)
    IN  IF acme_enable_delegated_cname /\ cname # "" THEN cname ELSE domain

\* the providers the handler has for a domain
ProvidersFor(domain) ==
    IF domain \in DOMAIN dns_providers_for_domain
    THEN Range(dns_providers_for_domain[domain])
    ELSE {}

GetAuthorizationsCalled == pc \notin {"idle", "start", "resolved"}

\* C6: get_authorizations fails closed: when the target domain of one of
\* the domains has no provider, get_authorizations raises and no
\* create_txt_record call is made for that domain, in the call or after it.
C6_FailsClosed ==
    GetAuthorizationsCalled =>
        \A i \in DOMAIN order_info_domains :
            ProvidersFor(TargetOf(order_info_domains[i])) = {} =>
                /\ exception.by = "get_authorizations"
                /\ \A c \in DOMAIN trace :
                        trace[c].call = "create_txt_record"
                            => trace[c].domain # order_info_domains[i]

\* get_authorizations raised for a domain without provider after it had
\* created the record of an earlier domain
C6_Witness ==
    /\ exception.by = "get_authorizations"
    /\ exception.name = "NoProviderForDomain"
    /\ ProvidersFor(TargetOf(exception.domain)) = {}
    /\ \E c \in Creates : trace[c].domain # exception.domain

(***************************************************************************)
(* Claims about cleanup_dns_challenges called on its own.                  *)
(***************************************************************************)
\* C4: cleanup_dns_challenges never raises, whatever the records and the
\* providers of the handler: with a failing deletion, a target domain
\* without provider mapping or a provider of unknown type, it still calls
\* delete_txt_record for the challenges of the remaining records and
\* providers.
C4_CleanupNeverRaises ==
    /\ pc # "cleanup_raised"
    /\ pc = "cleaned" =>
            \A r \in DOMAIN held_authorizations :
                LET target == held_authorizations[r].target_domain
                    providers == IF target \in DOMAIN dns_providers_for_domain
                                 THEN dns_providers_for_domain[target] ELSE <<>>
                IN  \A p \in DOMAIN providers :
                        providers[p].provider_type \in provider_types =>
                            \A k \in DOMAIN held_authorizations[r].dns_challenge :
                                \E d \in CleanupDeletes :
                                    /\ trace[d].record = r
                                    /\ trace[d].provider = providers[p].id
                                    /\ trace[d].token =
                                        held_authorizations[r].dns_challenge[k].token

(***************************************************************************)
(* Claims about the hostnames of the TXT records.                          *)
(***************************************************************************)
\* the configured provider with the given id
ProviderOf(id) ==
    CHOOSE dns_provider \in Range(all_dns_providers) : dns_provider.id = id

\* C11: for a domain that is not CNAME-delegated, every TXT record
\* get_authorizations creates is written at "_acme-challenge." followed by
\* the wildcard-stripped domain and the extension of the provider, for each
\* DNS-01 challenge of the domain: the label is never prepended twice.
C11_ChallengeHostname ==
    \A c \in Creates :
        TargetOf(trace[c].domain) = trace[c].domain =>
            trace[c].host =
                "_acme-challenge." \o strip_wildcard(trace[c].domain).host
                    \o ProviderOf(trace[c].provider).options.acme_challenge_extension

\* C12: every delete_txt_record call of finalize_authorizations and of
\* cleanup_dns_challenges for a token names the hostname that
\* create_txt_record was called with for that provider and token, also with
\* an acme_challenge_extension and with several DNS-01 challenges.
C12_DeleteTargetsWhatWasCreated ==
    \A d \in FinalizeDeletes \cup CleanupDeletes :
        \A c \in Creates :
            (trace[c].provider = trace[d].provider
                /\ trace[c].token = trace[d].token)
                    => trace[c].host = trace[d].host

(***************************************************************************)
(* Claims about CNAME delegation.                                          *)
(***************************************************************************)
\* the name whose CNAME record delegates the validation of a domain
DelegationName(domain) == "_acme-challenge." \o strip_wildcard(domain).host

\* the domain is delegated: the lookup is enabled and finds a CNAME record
Delegated(domain) ==
    /\ acme_enable_delegated_cname
    /\ DelegationName(domain) \in DOMAIN CnameAnswers
    /\ DelegationName(domain) \notin CnameErrors

\* the target of the CNAME record of the domain, an absolute name, without
\* its trailing dot
DelegationTarget(domain) ==
    LET answer == CnameAnswers[DelegationName(domain)]
    IN  SubSeq(answer, 1, Len(answer) - 1)

\* the configured providers that own the domain or a parent of it
Owners(domain) ==
    {dns_provider \in Range(all_dns_providers) :
        \E n \in DOMAIN dns_provider.domains :
            \/ dns_provider.domains[n] = domain
            \/ EndsWith(domain, "." \o dns_provider.domains[n])}

\* what C13 says of the create_txt_record calls for a delegated domain,
\* given the hostname expected for a target and a provider
DelegatedWrites(Hostname(_, _)) ==
    /\ \A c \in Creates :
            Delegated(trace[c].domain) =>
                LET T == DelegationTarget(trace[c].domain)
                IN  \E dns_provider \in Owners(T) :
                        /\ dns_provider.id = trace[c].provider
                        /\ trace[c].host = Hostname(T, dns_provider)
    /\ \A r \in DOMAIN held_authorizations :
            Delegated(held_authorizations[r].domain) =>
                held_authorizations[r].target_domain =
                    DelegationTarget(held_authorizations[r].domain)
    /\ (exception.name = "NoProviderForDomain" /\ Delegated(exception.domain)) =>
            Owners(DelegationTarget(exception.domain)) = {}

TargetItself(T, dns_provider) == T

TargetWithExtension(T, dns_provider) ==
    T \o dns_provider.options.acme_challenge_extension

\* C13 as stated: with delegation enabled and a CNAME from
\* "_acme-challenge." + stripped domain to T, get_authorizations takes T
\* without trailing dot as target domain, resolves the providers against T
\* and writes the challenge record at T itself, without the challenge label.
C13_WritesAtTarget == DelegatedWrites(TargetItself)

\* C13 amended: the challenge record is written at T followed by the
\* acme_challenge_extension of the provider, if it has one, without the
\* challenge label.
C13_WritesAtTargetWithExtension == DelegatedWrites(TargetWithExtension)

\* the record of a delegated domain was created with a provider that has an
\* extension
C13_Witness ==
    \E c \in Creates :
        /\ Delegated(trace[c].domain)
        /\ trace[c].ok
        /\ ProviderOf(trace[c].provider).options.acme_challenge_extension # ""

(***************************************************************************)
(* Claims about finalize_authorizations.                                   *)
(***************************************************************************)
\* the failed verifications and answer-challenge exchanges
FailedValidations ==
    {i \in EventsOf("complete_dns_challenge", "simple_verify")
            \cup EventsOf("complete_dns_challenge", "answer_challenge") :
        ~trace[i].ok}

\* finalize_authorizations has called delete_txt_record for every challenge
\* of the AuthorizationRecord
DeletedByFinalize(r) ==
    \A k \in DOMAIN held_authorizations[r].dns_challenge :
        \E d \in FinalizeDeletes :
            /\ trace[d].record = r
            /\ trace[d].token = held_authorizations[r].dns_challenge[k].token

\* C14: when the verification or the answer-challenge exchange of one
\* authorization of the batch fails, finalize_authorizations raises and has
\* still deleted the TXT records of the other authorizations of the batch.
C14_OthersStillDeleted ==
    \A e \in FailedValidations :
        /\ exception.by = "finalize_authorizations"
        /\ \A r \in DOMAIN held_authorizations :
                r # trace[e].record => DeletedByFinalize(r)

\* C19: finalize_authorizations calls delete_txt_record only after
\* complete_dns_challenge (propagation polling and answer_challenge) has
\* completed for every AuthorizationRecord of the batch.
C19_DeleteAfterAllCompleted ==
    \A d \in FinalizeDeletes :
        /\ \A e \in DOMAIN trace :
                trace[e].by = "complete_dns_challenge" => e < d
        /\ \A r \in DOMAIN held_authorizations :
                /\ \E w \in Waits : trace[w].record = r /\ w < d
                /\ \E a \in Answers :
                        trace[a].record = r /\ trace[a].ok /\ a < d

\* finalize_authorizations has deleted records of a batch of two
\* AuthorizationRecords
C19_Witness ==
    /\ Len(held_authorizations) = 2
    /\ \E d \in FinalizeDeletes : trace[d].record = 1
    /\ \E d \in FinalizeDeletes : trace[d].record = 2

\* complete_dns_challenge has returned normally for every AuthorizationRecord
AllCompleted == pc = "finalized" \/ FinalizeDeletes # {}

\* C20: when complete_dns_challenge has returned normally for an
\* AuthorizationRecord, answer_challenge has been called for every DNS-01
\* challenge of the record, with the response of that challenge.
C20_EveryChallengeAnswered ==
    AllCompleted =>
        \A r \in DOMAIN held_authorizations :
            \A k \in DOMAIN held_authorizations[r].dns_challenge :
                \E a \in Answers :
                    /\ trace[a].record = r
                    /\ trace[a].token =
                            held_authorizations[r].dns_challenge[k].token

Verifications == EventsOf("complete_dns_challenge", "simple_verify")

\* C21: when simple_verify fails for a DNS-01 challenge of an
\* AuthorizationRecord, complete_dns_challenge raises and answer_challenge
\* is not called for the record.
C21_NoAnswerAfterFailedVerify ==
    \A v \in Verifications :
        ~trace[v].ok =>
            /\ exception.by = "finalize_authorizations"
            /\ \A a \in Answers :
                    ~(trace[a].record = trace[v].record
                        /\ trace[a].provider = trace[v].provider)

(***************************************************************************)
(* Claims about create_txt_record.                                         *)
(***************************************************************************)
\* C15: create_txt_record swallows the conflict of the backend on a value
\* the record set already holds and still returns the change id; when the
\* request to the backend fails for another reason, it raises and returns
\* no change id.
C15_CreateErrors ==
    (rr_call.op = "create" /\ rr_call.zone_found) =>
        /\ (rr_call.faults = {}
                /\ rr_call.token \in ValuesAt(rr_call.before, rr_call.path)) =>
                    /\ ~rr_call.raised
                    /\ rr_call.change_id =
                        <<rr_call.path[2] \o "." \o rr_call.path[1], rr_call.token>>
        /\ "post" \in rr_call.faults =>
                /\ rr_call.raised
                /\ rr_call.change_id = <<>>

\* C27: when delete_txt_record raises, every value of every remote record
\* set, other than the token in the set of the hostname, is still present
\* afterwards.
C27_FailedDeleteKeepsOthers ==
    (rr_call.op = "delete" /\ rr_call.raised) =>
        \A path \in DOMAIN rr_call.before :
            \A value \in Range(rr_call.before[path]) :
                ~(path = rr_call.path /\ value = rr_call.token) =>
                    value \in ValuesAt(rrsets, path)

\* C28: for every domain for which a zone is found, the fqdn of the change
\* id create_txt_record returns equals the domain it was asked to write,
\* also when the domain is the zone name itself.
C28_ChangeIdNamesDomain ==
    (rr_call.op = "create" /\ rr_call.zone_found) =>
        /\ Len(rr_call.change_id) = 2
        /\ rr_call.change_id[1] = rr_call.domain

(***************************************************************************)
(* Claims about concurrent attempts on one record set.                     *)
(***************************************************************************)
\* the caller has created its record and not yet called delete_txt_record
HoldsRecord(caller) == callers[caller].at = "created"

\* no delete_txt_record call is between its GET and its last request
NoDeleteInProgress ==
    \A caller \in DOMAIN callers : callers[caller].at \notin {"delete", "post"}

\* C16: with different tokens of concurrent attempts in the record set of
\* one hostname, a token stays in the remote record set from its creation
\* until its own deletion, however the requests of the create_txt_record
\* and delete_txt_record calls interleave: once the calls of the others
\* have ended, the set holds the token of every attempt that has created
\* its record and not yet deleted it.
C16_NoOtherValueDropped ==
    NoDeleteInProgress =>
        \A caller \in DOMAIN callers :
            HoldsRecord(caller) =>
                TokenOf(caller) \in ValuesAt(rrsets, SharedPath)

(***************************************************************************)
(* Claims about get_authorizations.                                        *)
(***************************************************************************)
\* C22: get_authorizations returns exactly one AuthorizationRecord for
\* every requested domain, however many providers tie for the target of the
\* domain.
C22_OneRecordPerDomain ==
    pc = "authorized" =>
        /\ Len(held_authorizations) = Len(order_info_domains)
        /\ \A i \in DOMAIN held_authorizations :
                held_authorizations[i].domain = order_info_domains[i]

\* the order offers a DNS-01 challenge for the domain: an authorization for
\* its wildcard-stripped name, with the wildcard flag of the domain, holds one
OffersDnsChallenge(domain) ==
    \E i \in DOMAIN order_authorizations :
        /\ Lower(order_authorizations[i].identifier)
                = Lower(strip_wildcard(domain).host)
        /\ order_authorizations[i].wildcard = strip_wildcard(domain).is_wildcard
        /\ \E k \in DOMAIN order_authorizations[i].challenges :
                order_authorizations[i].challenges[k].typ = "dns-01"

\* C23: when the order offers no DNS-01 challenge for a requested domain,
\* get_authorizations raises (from start_dns_challenge when it is the first
\* failure), no create_txt_record call is made for that domain, and the
\* caller gets no AuthorizationRecord at all.
C23_NoDnsChallengeIsFatal ==
    GetAuthorizationsCalled =>
        \A i \in DOMAIN order_info_domains :
            ~OffersDnsChallenge(order_info_domains[i]) =>
                /\ exception.by = "get_authorizations"
                /\ held_authorizations = <<>>
                /\ \A c \in Creates : trace[c].domain # order_info_domains[i]
                /\ (exception.domain = order_info_domains[i]
                        /\ ProvidersFor(TargetOf(order_info_domains[i])) # {})
                            => exception.name = "NoDnsChallenge"

\* start_dns_challenge raised for the second domain, after the record of
\* the first had been created
C23_Witness ==
    /\ exception.by = "get_authorizations"
    /\ exception.name = "NoDnsChallenge"
    /\ held_authorizations = <<>>
    /\ \E c \in Creates : trace[c].ok /\ trace[c].domain # exception.domain

\* the CNAME lookup of the domain raises a DNS error
LookupFails(domain) == DelegationName(domain) \in CnameErrors

\* the records get_authorizations returned for a domain
RecordsOf(domain) ==
    {i \in DOMAIN held_authorizations : held_authorizations[i].domain = domain}

\* C24: for a domain whose validation is not delegated (the lookup is
\* disabled, finds no CNAME record, or raises a DNS error) get_authorizations
\* validates at the domain itself: every record of the domain has
\* target_domain = domain, and get_authorizations raises at that domain only
\* for the domain's own lack of a provider, lack of a DNS-01 challenge, or a
\* provider failure.
C24_UndelegatedTargetIsDomain ==
    \A i \in DOMAIN order_info_domains :
        LET domain == order_info_domains[i]
        IN  ~Delegated(domain) =>
                /\ \A r \in RecordsOf(domain) :
                        held_authorizations[r].target_domain = domain
                /\ (exception.by = "get_authorizations"
                        /\ exception.domain = domain) =>
                        \/ /\ exception.name = "NoProviderForDomain"
                           /\ ProvidersFor(domain) = {}
                        \/ /\ exception.name = "NoDnsChallenge"
                           /\ ~OffersDnsChallenge(domain)
                        \/ /\ exception.name = "ProviderError"
                           /\ \E c \in Creates :
                                trace[c].domain = domain /\ ~trace[c].ok

\* with the lookup enabled, a domain whose lookup raises got its record, at
\* the domain itself
C24_Witness ==
    /\ pc = "authorized"
    /\ acme_enable_delegated_cname
    /\ \E r \in DOMAIN held_authorizations :
            /\ LookupFails(held_authorizations[r].domain)
            /\ held_authorizations[r].target_domain
                    = held_authorizations[r].domain

\* with the lookup disabled, a domain that has a CNAME record got its record,
\* at the domain itself
C24_WitnessDisabled ==
    /\ pc = "authorized"
    /\ ~acme_enable_delegated_cname
    /\ \E r \in DOMAIN held_authorizations :
            /\ DelegationName(held_authorizations[r].domain)
                    \in DOMAIN CnameAnswers
            /\ held_authorizations[r].target_domain
                    = held_authorizations[r].domain

(***************************************************************************)
(* Claims about the provider mapping of the handler.                       *)
(***************************************************************************)
\* the computations of a provider list that get_authorizations started
Computations == EventsOf("get_authorizations", "autodetect_dns_providers")

\* the mapping held an entry for the domain when get_authorizations
\* started: the entries of the requested names
HeldBefore(domain) ==
    \E i \in DOMAIN order_info_domains : order_info_domains[i] = domain

\* C26: the provider list of a domain is computed at most once: no
\* computation is started for a domain the mapping holds an entry for, be it
\* from before get_authorizations or from an earlier computation in it.
C26_ComputedAtMostOnce ==
    \A e \in Computations :
        /\ ~HeldBefore(trace[e].host)
        /\ \A f \in Computations : trace[f].host = trace[e].host => f = e

====
